---- MODULE Spec2Model ----
(***************************************************************************)
(* mini_rest: the accept loop of start_server and the per-connection       *)
(* handle_client task (src/src/server.rs), as a state machine.             *)
(*                                                                         *)
(* A byte is a one-character string; the token "0xFF" stands for the byte  *)
(* 0xFF, which occurs in no valid UTF-8 text.  A byte string is a sequence *)
(* of bytes.                                                               *)
(***************************************************************************)
EXTENDS Integers, Sequences, FiniteSets, TLC

\* ------------------------------------------------------------------ bounds
\* Connections a run may open.
MaxConns == 2
\* Sends, closes and resets all clients together may perform.
MaxClientOps == 2
\* Reads, over all connections, that return fewer bytes than are available.
MaxShort == 1
\* Longest short read, in bytes.
MaxFrag == 2
\* accept() errors a run may see.
MaxAcceptErrs == 1
\* Length of the filler header value of the large request.
PadLen == 1010
\* Longest text after the host in an address given to new.
MaxTailLen == 4

\* ------------------------------------------------------- program constants
\* let mut buffer = [0; 1024]: the most bytes one read returns.
BufSize == 1024
\* if content.len() < 1024: the accumulated size below which a response is sent.
RespondLimit == 1024

Conns == 1..MaxConns
Paths == {"/"}

\* ------------------------------------------------------------ byte strings
CRLF == <<"\r", "\n">>
BadByte == "0xFF"
Whitespace == {" ", "\t", "\r", "\n"}
Digits == <<"0", "1", "2", "3", "4", "5", "6", "7", "8", "9">>
ContentLengthPrefix == <<"C", "o", "n", "t", "e", "n", "t", "-", "L", "e", "n", "g", "t", "h", ":">>

Min(S) == CHOOSE x \in S : \A y \in S : x <= y

\* Option<usize>
None == [some |-> FALSE, v |-> 0]
Some(n) == [some |-> TRUE, v |-> n]

\* String::from_utf8(..): Ok exactly for valid UTF-8.
ValidUtf8(s) == \A i \in 1..Len(s) : s[i] # BadByte

\* str::trim: leading and trailing whitespace removed.
Trim(s) ==
  LET keep == {i \in 1..Len(s) : s[i] \notin Whitespace}
  IN IF keep = {} THEN <<>>
     ELSE SubSeq(s, Min(keep), CHOOSE i \in keep : \A j \in keep : j <= i)

DigitVal(ch) == (CHOOSE i \in 1..10 : Digits[i] = ch) - 1
IsDigit(ch) == \E i \in 1..10 : Digits[i] = ch

RECURSIVE DecValue(_)
DecValue(ds) ==
  IF ds = <<>> THEN 0
  ELSE 10 * DecValue(SubSeq(ds, 1, Len(ds) - 1)) + DigitVal(ds[Len(ds)])

\* str::parse::<usize>: an optional '+', then one or more decimal digits.
\* (The inputs enumerated below have values far below usize::MAX.)
ParseUsize(s) ==
  LET ds == IF s # <<>> /\ s[1] = "+" THEN Tail(s) ELSE s
  IN IF ds # <<>> /\ \A i \in 1..Len(ds) : IsDigit(ds[i])
     THEN Some(DecValue(ds)) ELSE None

\* str::lines: the lines of s as (first, last) index pairs.  A line ends at
\* "\n" or at the end of s; a "\r" just before the "\n" is not part of it.
LineStarts(s) ==
  {p \in {1} \cup {i + 1 : i \in {j \in 1..Len(s) : s[j] = "\n"}} : p <= Len(s)}
LineLast(s, p) ==
  LET nls == {j \in p..Len(s) : s[j] = "\n"}
  IN IF nls = {} THEN Len(s)
     ELSE LET nl == Min(nls)
          IN IF nl - 1 >= p /\ s[nl - 1] = "\r" THEN nl - 2 ELSE nl - 1
Line(s, p) == SubSeq(s, p, LineLast(s, p))

StartsWith(l, pre) == Len(l) >= Len(pre) /\ SubSeq(l, 1, Len(pre)) = pre

\* line.split(' ').nth(1): what lies between the first and the second space.
SplitNth1(l) ==
  LET sp == {i \in 1..Len(l) : l[i] = " "}
  IN IF sp = {} THEN [some |-> FALSE, v |-> <<>>]
     ELSE LET a == Min(sp)
              rest == {i \in sp : i > a}
              b == IF rest = {} THEN Len(l) + 1 ELSE Min(rest)
          IN [some |-> TRUE, v |-> SubSeq(l, a + 1, b - 1)]

\* fn get_content_length(request: String) -> Option<usize>
get_content_length(request) ==
  LET hits == {p \in LineStarts(request) :
                 StartsWith(Line(request, p), ContentLengthPrefix)}
  IN IF hits = {} THEN None
     ELSE LET tok == SplitNth1(Line(request, Min(hits)))
          IN IF tok.some THEN ParseUsize(Trim(tok.v)) ELSE None

\* usize formatted by "{}"
RECURSIVE FormatUsize(_)
FormatUsize(n) ==
  IF n < 10 THEN <<Digits[n + 1]>>
  ELSE FormatUsize(n \div 10) \o <<Digits[(n % 10) + 1]>>

response_body ==
  <<"<", "h", "1", ">", "H", "e", "l", "l", "o", ",", " ", "w", "o", "r", "l", "d", "!", "<", "/", "h", "1", ">">>
RespHead ==
  <<"H", "T", "T", "P", "/", "1", ".", "1", " ", "2", "0", "0", " ", "O", "K", "\r", "\n",
    "C", "o", "n", "t", "e", "n", "t", "-", "T", "y", "p", "e", ":", " ",
    "t", "e", "x", "t", "/", "h", "t", "m", "l", "\r", "\n",
    "C", "o", "n", "t", "e", "n", "t", "-", "L", "e", "n", "g", "t", "h", ":", " ">>
RespMid ==
  <<"\r", "\n", "C", "o", "n", "n", "e", "c", "t", "i", "o", "n", ":", " ",
    "k", "e", "e", "p", "-", "a", "l", "i", "v", "e", "\r", "\n", "\r", "\n">>
\* The response with a Content-Length one above the length of its body.
response_wrong_length ==
  RespHead \o FormatUsize(Len(response_body) + 1) \o RespMid \o response_body
\* let response = format!("HTTP/1.1 200 OK ... Content-Length: {} ... {}", len, body)
response == RespHead \o FormatUsize(Len(response_body)) \o RespMid \o response_body

\* ------------------------------------------------- what a client may send
ReqLine == <<"G", "E", "T", " ", "/", " ", "H", "T", "T", "P", "/", "1", ".", "1", "\r", "\n">>
ConnCloseLine == <<"C", "o", "n", "n", "e", "c", "t", "i", "o", "n", ":", " ", "c", "l", "o", "s", "e">>
\* GET / with no headers: 18 bytes.
ReqGet == ReqLine \o CRLF
\* GET / with Connection: close.
ReqClose == ReqLine \o ConnCloseLine \o CRLF \o CRLF
\* The head of a POST that declares a 2-byte body, and that body.
PostHead ==
  <<"P", "O", "S", "T", " ", "/", " ", "H", "T", "T", "P", "/", "1", ".", "1", "\r", "\n">>
  \o ContentLengthPrefix \o <<" ", "2">> \o CRLF \o CRLF
PostBody == <<"h", "i">>
\* GET / with one long header: PadLen + 23 bytes, a valid request that is longer
\* than one read buffer.
ReqBig == ReqLine \o <<"X", ":", " ">> \o [i \in 1..PadLen |-> "a"] \o CRLF \o CRLF
\* A byte that is not UTF-8.
Garbage == <<BadByte>>
\* A header block whose request line has no method, path and version.
BadReq == <<"h", "i">> \o CRLF \o CRLF

Messages == {ReqGet, ReqClose, PostHead, PostBody, ReqBig, Garbage, BadReq}

\* ------------------------------------------------------------ the address
\* server::new("127.0.0.1:8080".to_string())
LocalAddress ==
  <<"1", "2", "7", ".", "0", ".", "0", ".", "1", ":", "8", "0", "8", "0">>

\* The Strings new is given: a host, then up to MaxTailLen further characters.
Hosts == {<<>>, <<"h">>}
TailChars == {":", "0", "8", "+", "x"}
Tails == UNION {[1..n -> TailChars] : n \in 0..MaxTailLen}
Addresses == {h \o tl : h \in Hosts, tl \in Tails} \cup {LocalAddress}

\* str::split_once(':'): the text before and after the first ':'.
split_once(s) ==
  LET at == {i \in 1..Len(s) : s[i] = ":"}
  IN IF at = {} THEN [some |-> FALSE, before |-> <<>>, after |-> <<>>]
     ELSE [some |-> TRUE,
           before |-> SubSeq(s, 1, Min(at) - 1),
           after |-> SubSeq(s, Min(at) + 1, Len(s))]

\* str::parse::<i32>: an optional '+' or '-', then one or more decimal digits.
\* (The texts enumerated have at most MaxTailLen digits, far below i32::MAX.)
ParseI32(s) ==
  LET signed == s # <<>> /\ s[1] \in {"+", "-"}
      ds == IF signed THEN Tail(s) ELSE s
  IN IF ds # <<>> /\ \A i \in 1..Len(ds) : IsDigit(ds[i])
     THEN Some(IF signed /\ s[1] = "-" THEN 0 - DecValue(ds) ELSE DecValue(ds))
     ELSE None

\* What a ServerInfo call returned: text for address() and ip(), num for port().
NoCall == [call |-> "none", ok |-> TRUE, text |-> <<>>, num |-> 0]
Panicked(call) == [call |-> call, ok |-> FALSE, text |-> <<>>, num |-> 0]

\* fn ip(&self) -> &str that keeps the text after the ':' instead.
ip_after(addr) ==
  LET parts == split_once(addr)
  IN IF parts.some THEN [call |-> "ip", ok |-> TRUE, text |-> parts.after, num |-> 0]
     ELSE Panicked("ip")

\* fn ip(&self) -> &str: let (ip, _) = self.address.split_once(':').unwrap(); ip
ip(addr) ==
  LET parts == split_once(addr)
  IN IF parts.some THEN [call |-> "ip", ok |-> TRUE, text |-> parts.before, num |-> 0]
     ELSE Panicked("ip")

\* fn port(&self) -> i32: the text after the ':' parsed; each unwrap may panic.
port(addr) ==
  LET parts == split_once(addr)
      parsed == ParseI32(parts.after)
  IN IF parts.some /\ parsed.some
     THEN [call |-> "port", ok |-> TRUE, text |-> <<>>, num |-> parsed.v]
     ELSE Panicked("port")

\* ------------------------------------------------------------------- state
VARIABLES
  listener,        \* start_server: "init", "accepting" (in the accept loop), "failed" (panicked)
  added,           \* the paths add_route was called with (the Server keeps none of them)
  acceptErrs,      \* how many times accept() returned Err
  sock,            \* per connection: "none", "backlog" (connected, not yet accepted), "accepted"
  peer,            \* per connection, the client's end: "open", "closed" (FIN sent), "reset"
  wire,            \* per connection: bytes the client sent that no read has returned yet
  pc,              \* per connection, its handle_client task: "none", "spawned", "read",
                   \* "write", "done" (returned), "panicked"
  content,         \* per connection: let mut content: Vec<u8>
  content_length,  \* per connection: let mut content_length: usize
  io,              \* per connection: the socket calls of handle_client so far, in order
  nsent,           \* sends, closes and resets performed by all clients
  nshort,          \* short reads so far
  address,         \* Server.address: the String given to new
  info             \* the latest ServerInfo call and what it returned (ok FALSE: it panicked)

vars == <<listener, added, acceptErrs, sock, peer, wire, pc, content, content_length,
          io, nsent, nshort, address, info>>

Ended == {"done", "panicked"}

\* One socket call: op is "read" (n bytes returned), "eof" (read returned 0),
\* "readErr", "write" (data written) or "writeErr".
Event(op, n, data) == [op |-> op, n |-> n, data |-> data]

\* pub fn new(addr: String) -> Server, before start is awaited.
Init ==
  /\ listener = "init"
  /\ added = {}
  /\ acceptErrs = 0
  /\ sock = [c \in Conns |-> "none"]
  /\ peer = [c \in Conns |-> "open"]
  /\ wire = [c \in Conns |-> <<>>]
  /\ pc = [c \in Conns |-> "none"]
  /\ content = [c \in Conns |-> <<>>]
  /\ content_length = [c \in Conns |-> 0]
  /\ io = [c \in Conns |-> <<>>]
  /\ nsent = 0
  /\ nshort = 0
  /\ address = LocalAddress
  /\ info = NoCall

\* --------------------------------------------------------------- the server
\* fn add_route(&mut self, path, _handler): prints the path; the handler is dropped
\* and nothing is stored.  start(self) consumes the server, so it runs before start.
add_route(path) ==
  /\ listener = "init"
  /\ added' = added \cup {path}
  /\ UNCHANGED <<listener, acceptErrs, sock, peer, wire, pc, content, content_length,
                 io, nsent, nshort, address, info>>

\* start_server: TcpListener::bind(..).await.unwrap()
Bind ==
  /\ listener = "init"
  /\ listener' \in {"accepting", "failed"}
  /\ UNCHANGED <<added, acceptErrs, sock, peer, wire, pc, content, content_length,
                 io, nsent, nshort, address, info>>

\* The connection accept() returns next: the oldest in the backlog.
NextPending == Min({c \in Conns : sock[c] = "backlog"})

\* listener.accept() returned Ok((socket, _)): tokio::spawn(handle_client(socket)).
AcceptOk ==
  /\ listener = "accepting"
  /\ \E c \in Conns : sock[c] = "backlog"
  /\ sock' = [sock EXCEPT ![NextPending] = "accepted"]
  /\ pc' = [pc EXCEPT ![NextPending] = "spawned"]
  /\ UNCHANGED <<listener, added, acceptErrs, peer, wire, content, content_length,
                 io, nsent, nshort, address, info>>

\* An accept error that ends start_server.
AcceptErrFatal ==
  /\ listener = "accepting"
  /\ \E c \in Conns : sock[c] = "backlog"
  /\ acceptErrs < MaxAcceptErrs
  /\ acceptErrs' = acceptErrs + 1
  /\ listener' = "failed"
  /\ UNCHANGED <<added, sock, peer, wire, pc, content, content_length,
                 io, nsent, nshort, address, info>>

\* listener.accept() returned Err(e) for an incoming connection: the error is
\* printed and the loop goes on (the connection stays to be accepted).
AcceptErr ==
  /\ listener = "accepting"
  /\ \E c \in Conns : sock[c] = "backlog"
  /\ acceptErrs < MaxAcceptErrs
  /\ acceptErrs' = acceptErrs + 1
  /\ UNCHANGED <<listener, added, sock, peer, wire, pc, content, content_length,
                 io, nsent, nshort, address, info>>

\* A panic inside a task made by tokio::spawn: the runtime catches it, the task
\* ends, and the task that spawned it (the accept loop) is not touched.
TaskPanicInline(c) ==
  /\ pc' = [pc EXCEPT ![c] = "panicked"]
  /\ listener' = "failed"
TaskPanic(c) ==
  /\ pc' = [pc EXCEPT ![c] = "panicked"]
  /\ listener' = listener

\* handle_client, up to the loop: socket.peer_addr().unwrap()
Start(c) ==
  /\ pc[c] = "spawned"
  /\ IF peer[c] = "reset"
     THEN TaskPanic(c)
     ELSE pc' = [pc EXCEPT ![c] = "read"] /\ listener' = listener
  /\ UNCHANGED <<added, acceptErrs, sock, peer, wire, content, content_length,
                 io, nsent, nshort, address, info>>

\* The sizes socket.read(&mut buffer) may return with n bytes waiting: all of them
\* up to the buffer's size, or (a short read) fewer.
ReadSizes(n) ==
  LET full == IF n < BufSize THEN n ELSE BufSize
  IN {full} \cup {k \in 1..MaxFrag : k < full /\ nshort < MaxShort}

\* The Ok(size) arm answering while content is no longer than 1024 bytes.
ReadDataInclusive(c, k) ==
  LET full == IF Len(wire[c]) < BufSize THEN Len(wire[c]) ELSE BufSize
      grown == content[c] \o SubSeq(wire[c], 1, k)
      found == get_content_length(grown)
  IN /\ wire' = [wire EXCEPT ![c] = SubSeq(wire[c], k + 1, Len(wire[c]))]
     /\ content' = [content EXCEPT ![c] = grown]
     /\ io' = [io EXCEPT ![c] = Append(io[c], Event("read", k, <<>>))]
     /\ nshort' = IF k < full THEN nshort + 1 ELSE nshort
     /\ IF content_length[c] = 0 /\ ~ValidUtf8(grown)
        THEN TaskPanic(c) /\ UNCHANGED content_length
        ELSE /\ content_length' =
                  IF content_length[c] = 0 /\ found.some
                  THEN [content_length EXCEPT ![c] = found.v]
                  ELSE content_length
             /\ pc' = [pc EXCEPT ![c] = IF Len(grown) <= RespondLimit THEN "write" ELSE "read"]
             /\ listener' = listener

\* The Ok(size) arm answering only while no Content-Length is found in content.
ReadDataSilent(c, k) ==
  LET full == IF Len(wire[c]) < BufSize THEN Len(wire[c]) ELSE BufSize
      grown == content[c] \o SubSeq(wire[c], 1, k)
      found == get_content_length(grown)
  IN /\ wire' = [wire EXCEPT ![c] = SubSeq(wire[c], k + 1, Len(wire[c]))]
     /\ content' = [content EXCEPT ![c] = grown]
     /\ io' = [io EXCEPT ![c] = Append(io[c], Event("read", k, <<>>))]
     /\ nshort' = IF k < full THEN nshort + 1 ELSE nshort
     /\ IF content_length[c] = 0 /\ ~ValidUtf8(grown)
        THEN TaskPanic(c) /\ UNCHANGED content_length
        ELSE /\ content_length' =
                  IF content_length[c] = 0 /\ found.some
                  THEN [content_length EXCEPT ![c] = found.v]
                  ELSE content_length
             /\ pc' = [pc EXCEPT ![c] = IF Len(grown) < RespondLimit /\ ~found.some THEN "write" ELSE "read"]
             /\ listener' = listener

\* The Ok(size) arm, up to the write: content grows by the bytes read; while
\* content_length is 0 the whole of content is decoded (a panic when it is not
\* UTF-8) and searched for a Content-Length; a response follows when content is
\* shorter than 1024 bytes.
ReadData(c, k) ==
  LET full == IF Len(wire[c]) < BufSize THEN Len(wire[c]) ELSE BufSize
      grown == content[c] \o SubSeq(wire[c], 1, k)
      found == get_content_length(grown)
  IN /\ wire' = [wire EXCEPT ![c] = SubSeq(wire[c], k + 1, Len(wire[c]))]
     /\ content' = [content EXCEPT ![c] = grown]
     /\ io' = [io EXCEPT ![c] = Append(io[c], Event("read", k, <<>>))]
     /\ nshort' = IF k < full THEN nshort + 1 ELSE nshort
     /\ IF content_length[c] = 0 /\ ~ValidUtf8(grown)
        THEN TaskPanic(c) /\ UNCHANGED content_length
        ELSE /\ content_length' =
                  IF content_length[c] = 0 /\ found.some
                  THEN [content_length EXCEPT ![c] = found.v]
                  ELSE content_length
             /\ pc' = [pc EXCEPT ![c] = IF Len(grown) < RespondLimit THEN "write" ELSE "read"]
             /\ listener' = listener

\* One socket.read(&mut buffer).await and the arm of the match it selects.
Read(c) ==
  /\ pc[c] = "read"
  /\ \/ /\ peer[c] = "reset"                      \* Err(e): break
        /\ io' = [io EXCEPT ![c] = Append(io[c], Event("readErr", 0, <<>>))]
        /\ pc' = [pc EXCEPT ![c] = "done"]
        /\ UNCHANGED <<listener, wire, content, content_length, nshort>>
     \/ /\ peer[c] = "closed" /\ wire[c] = <<>>   \* Ok(0): break
        /\ io' = [io EXCEPT ![c] = Append(io[c], Event("eof", 0, <<>>))]
        /\ pc' = [pc EXCEPT ![c] = "done"]
        /\ UNCHANGED <<listener, wire, content, content_length, nshort>>
     \/ /\ peer[c] # "reset" /\ wire[c] # <<>>    \* Ok(size)
        /\ \E k \in ReadSizes(Len(wire[c])) : ReadData(c, k)
  /\ UNCHANGED <<added, acceptErrs, sock, peer, nsent, address, info>>

\* socket.write_all(response.as_bytes()).await; an Err is printed and the loop
\* goes on to the next read.
Write(c) ==
  /\ pc[c] = "write"
  /\ io' = [io EXCEPT ![c] =
              Append(io[c], IF peer[c] = "reset" THEN Event("writeErr", 0, <<>>)
                            ELSE Event("write", Len(response), response))]
  /\ pc' = [pc EXCEPT ![c] = "read"]
  /\ UNCHANGED <<listener, added, acceptErrs, sock, peer, wire, content, content_length,
                 nsent, nshort, address, info>>

\* -------------------------------------------------------------- the clients
\* A client connects; its connection waits in the listener's backlog.
Connect(c) ==
  /\ listener = "accepting"
  /\ sock[c] = "none"
  /\ \A d \in Conns : d < c => sock[d] # "none"
  /\ sock' = [sock EXCEPT ![c] = "backlog"]
  /\ UNCHANGED <<listener, added, acceptErrs, peer, wire, pc, content, content_length,
                 io, nsent, nshort, address, info>>

Live(c) == sock[c] # "none" /\ peer[c] = "open" /\ pc[c] \notin Ended

\* A client sends one message.
Send(c, m) ==
  /\ Live(c)
  /\ nsent < MaxClientOps
  /\ nsent' = nsent + 1
  /\ wire' = [wire EXCEPT ![c] = wire[c] \o m]
  /\ UNCHANGED <<listener, added, acceptErrs, sock, peer, pc, content, content_length,
                 io, nshort, address, info>>

\* A client closes its end: the server reads what is left, then end of stream.
Close(c) ==
  /\ Live(c)
  /\ nsent < MaxClientOps
  /\ nsent' = nsent + 1
  /\ peer' = [peer EXCEPT ![c] = "closed"]
  /\ UNCHANGED <<listener, added, acceptErrs, sock, wire, pc, content, content_length,
                 io, nshort, address, info>>

\* A client resets the connection: unread bytes are lost, reads and writes fail.
Reset(c) ==
  /\ Live(c)
  /\ nsent < MaxClientOps
  /\ nsent' = nsent + 1
  /\ peer' = [peer EXCEPT ![c] = "reset"]
  /\ wire' = [wire EXCEPT ![c] = <<>>]
  /\ UNCHANGED <<listener, added, acceptErrs, sock, pc, content, content_length,
                 io, nshort, address, info>>

Next ==
  \/ \E p \in Paths : add_route(p)
  \/ Bind
  \/ AcceptOk
  \/ AcceptErr
  \/ \E c \in Conns : Start(c)
  \/ \E c \in Conns : Read(c)
  \/ \E c \in Conns : Write(c)
  \/ \E c \in Conns : Connect(c)
  \/ \E c \in Conns, m \in Messages : Send(c, m)
  \/ \E c \in Conns : Close(c)
  \/ \E c \in Conns : Reset(c)

Spec == Init /\ [][Next]_vars

\* ------------------------------------------------- the ServerInfo methods
\* A server made by new(addr), for the addresses enumerated, before start.
AddrInit ==
  /\ listener = "init"
  /\ added = {}
  /\ acceptErrs = 0
  /\ sock = [c \in Conns |-> "none"]
  /\ peer = [c \in Conns |-> "open"]
  /\ wire = [c \in Conns |-> <<>>]
  /\ pc = [c \in Conns |-> "none"]
  /\ content = [c \in Conns |-> <<>>]
  /\ content_length = [c \in Conns |-> 0]
  /\ io = [c \in Conns |-> <<>>]
  /\ nsent = 0
  /\ nshort = 0
  /\ address \in Addresses
  /\ info = NoCall

\* server.address(): &self.address
CallAddress ==
  /\ info' = [call |-> "address", ok |-> TRUE, text |-> address, num |-> 0]
  /\ UNCHANGED <<listener, added, acceptErrs, sock, peer, wire, pc, content,
                 content_length, io, nsent, nshort, address>>

\* server.ip()
CallIp ==
  /\ info' = ip(address)
  /\ UNCHANGED <<listener, added, acceptErrs, sock, peer, wire, pc, content,
                 content_length, io, nsent, nshort, address>>

\* server.port()
CallPort ==
  /\ info' = port(address)
  /\ UNCHANGED <<listener, added, acceptErrs, sock, peer, wire, pc, content,
                 content_length, io, nsent, nshort, address>>

AddrNext == CallAddress \/ CallIp \/ CallPort

AddrSpec == AddrInit /\ [][AddrNext]_vars

TypeOK ==
  /\ listener \in {"init", "accepting", "failed"}
  /\ added \subseteq Paths
  /\ acceptErrs \in 0..MaxAcceptErrs
  /\ \A c \in Conns :
       /\ sock[c] \in {"none", "backlog", "accepted"}
       /\ peer[c] \in {"open", "closed", "reset"}
       /\ pc[c] \in {"none", "spawned", "read", "write", "done", "panicked"}
       /\ content_length[c] \in Nat
  /\ address \in Addresses
  /\ info.call \in {"none", "address", "ip", "port"}

\* ------------------------------------------------- the claims' vocabulary
\* HTTP framing as the claims mean it (the code has no counterpart): a request
\* is complete when its header block ends in CRLF CRLF and as many body bytes
\* follow as its Content-Length header declares (none declared: no body).

\* Index of the last byte of the first CRLF CRLF at or after from; 0 when none.
HeaderEnd(s, from) ==
  LET at == {i \in from..(Len(s) - 3) :
               s[i] = "\r" /\ s[i + 1] = "\n" /\ s[i + 2] = "\r" /\ s[i + 3] = "\n"}
  IN IF at = {} THEN 0 ELSE Min(at) + 3

\* A request line is "method SP target SP HTTP/version": two single spaces
\* between three non-empty parts, the last one starting with HTTP/.
WellFormedLine(l) ==
  LET sp == {i \in 1..Len(l) : l[i] = " "}
  IN /\ Cardinality(sp) = 2
     /\ \A i \in sp : i # 1 /\ i # Len(l) /\ i + 1 \notin sp
     /\ StartsWith(SubSeq(l, (CHOOSE i \in sp : \A j \in sp : j <= i) + 1, Len(l)),
                   <<"H", "T", "T", "P", "/">>)

\* The bytes of s from from on begin with a terminated header block whose
\* request line is malformed.
MalformedAt(s, from) ==
  HeaderEnd(s, from) # 0 /\ ~WellFormedLine(Line(s, from))

\* Index of the last byte of the complete (well-formed) request that starts at
\* from; 0 when the bytes from there on hold no such request.
RequestEnd(s, from) ==
  LET h == HeaderEnd(s, from)
  IN IF h = 0 \/ ~WellFormedLine(Line(s, from)) THEN 0
     ELSE LET declared == get_content_length(SubSeq(s, from, h))
              n == IF declared.some THEN declared.v ELSE 0
          IN IF h + n <= Len(s) THEN h + n ELSE 0

RECURSIVE CompleteFrom(_, _)
CompleteFrom(s, from) ==
  IF from > Len(s) \/ RequestEnd(s, from) = 0 THEN 0
  ELSE 1 + CompleteFrom(s, RequestEnd(s, from) + 1)

\* How many complete requests s holds, from its first byte on.
CompleteRequests(s) == CompleteFrom(s, 1)

\* s is exactly one complete request.
OneRequest(s) == s # <<>> /\ RequestEnd(s, 1) = Len(s)

\* The first request of s asks for the connection to be closed.
HasConnectionClose(s) ==
  LET head == SubSeq(s, 1, HeaderEnd(s, 1))
  IN \E p \in LineStarts(head) : Line(head, p) = ConnCloseLine

\* The (method, path) of the request line of s.
RouteKey(s) ==
  LET l == Line(s, 1)
      sp == {i \in 1..Len(l) : l[i] = " "}
  IN IF sp = {} THEN <<l, <<>>>> ELSE <<SubSeq(l, 1, Min(sp) - 1), SplitNth1(l).v>>

\* The routes the Server holds: struct Server has the address as its only field.
routes == {}

\* The status code of a response's status line.
StatusOf(resp) == ParseUsize(SubSeq(resp, 10, 12)).v

\* The socket calls of connection c, counted and located.
Ops(c, kinds) == {i \in 1..Len(io[c]) : io[c][i].op \in kinds}
Written(c) == Cardinality(Ops(c, {"write"}))
NReads(c) == Cardinality(Ops(c, {"read"}))
NoIoError(c) == Ops(c, {"readErr", "writeErr"}) = {}

RECURSIVE BytesRead(_, _)
BytesRead(c, i) ==
  IF i = 0 THEN 0
  ELSE BytesRead(c, i - 1) + (IF io[c][i].op = "read" THEN io[c][i].n ELSE 0)

\* What content held right after the i-th socket call (content only ever grows).
ContentAt(c, i) == SubSeq(content[c], 1, BytesRead(c, i))

\* The last read that returned bytes, and whether it completed a request.
LastRead(c) == CHOOSE i \in Ops(c, {"read"}) : \A j \in Ops(c, {"read"}) : j <= i
LastReadCompleted(c) ==
  /\ Ops(c, {"read"}) # {}
  /\ CompleteRequests(ContentAt(c, LastRead(c))) >
       CompleteRequests(ContentAt(c, LastRead(c) - 1))

\* The handler is back at the top of its loop with nothing left to read.
Quiet(c) == pc[c] = "read" /\ wire[c] = <<>>

\* A step of the handle_client task of connection c.
HandlerStep(c) == Start(c) \/ Read(c) \/ Write(c)

\* ---------------------------------------------------------------- the claims

\* C1: a connection that has received exactly one complete request, in however
\* many reads, has written exactly one response once its handler is back at the
\* read with nothing left to read (no write having failed).
C1_OneResponsePerRequest ==
  \A c \in Conns :
    (Quiet(c) /\ NoIoError(c) /\ OneRequest(content[c])) => Written(c) = 1

\* C2: no response is written before its request is complete: whenever the
\* handler writes, the responses written so far (this one included) do not
\* outnumber the complete requests in the bytes accumulated so far.
C2_NoResponseBeforeComplete ==
  \A c \in Conns : \A i \in Ops(c, {"write"}) :
    Cardinality({j \in Ops(c, {"write"}) : j <= i}) <= CompleteRequests(ContentAt(c, i))

\* C3: when two complete requests arrive concatenated in a single read, two
\* responses have been written once the handler is back at the read.
C3_PipelinedBothAnswered ==
  \A c \in Conns :
    (Quiet(c) /\ NoIoError(c) /\ NReads(c) = 1 /\ CompleteRequests(content[c]) = 2)
      => Written(c) = 2

\* C4: on a connection with no I/O error that has already received a complete
\* request and been answered, a read that completes a further request is
\* followed by a response before the handler waits for more bytes, whatever the
\* number of bytes received so far.
C4_LaterRequestAnswered ==
  \A c \in Conns :
    (Quiet(c) /\ NoIoError(c) /\ LastReadCompleted(c)
       /\ CompleteRequests(ContentAt(c, LastRead(c) - 1)) >= 1
       /\ \E j \in Ops(c, {"write"}) : j < LastRead(c))
      => \E i \in Ops(c, {"write"}) : i > LastRead(c)

\* C5: once the response to a request carrying Connection: close is written the
\* handler has ended (the socket is closed); after the response to a request
\* without it the handler is reading again.
C5_ConnectionCloseHonoured ==
  \A c \in Conns :
    (OneRequest(content[c]) /\ io[c] # <<>> /\ io[c][Len(io[c])].op = "write")
      => IF HasConnectionClose(content[c]) THEN pc[c] = "done" ELSE pc[c] = "read"

\* C6: a read error or a write error is the last socket call of its handler.
C6_IoErrorTerminal ==
  \A c \in Conns : \A i \in Ops(c, {"readErr", "writeErr"}) : i = Len(io[c])

\* C7: while a handler has panicked the accept loop is still running, a waiting
\* connection can still be accepted, and every other handler that was spawned
\* or has a response to write can still take that step.
C7_PanicIsolated ==
  \A c \in Conns :
    pc[c] = "panicked" =>
      /\ listener = "accepting"
      /\ (\E d \in Conns : sock[d] = "backlog") => ENABLED AcceptOk
      /\ \A d \in Conns \ {c} :
           /\ pc[d] = "spawned" => ENABLED Start(d)
           /\ pc[d] = "write" => ENABLED Write(d)

\* C7, witness: one handler has panicked while another connection's handler holds
\* a complete request it has read and is about to write its response.
C7_Witness ==
  \E c, d \in Conns :
    /\ c # d
    /\ pc[c] = "panicked"
    /\ pc[d] = "write"
    /\ OneRequest(content[d])

\* A connection whose client has not sent a complete request and keeps it open.
Stalled(c) ==
  /\ sock[c] = "accepted"
  /\ pc[c] = "read"
  /\ peer[c] = "open"
  /\ CompleteRequests(content[c] \o wire[c]) = 0

\* C8: beside a stalled connection, another connection (no I/O error) whose
\* handler has read a complete request has answered it before waiting for more.
C8_OthersAnsweredBesideStalled ==
  \A c, d \in Conns :
    (c # d /\ Stalled(c) /\ Quiet(d) /\ NoIoError(d) /\ LastReadCompleted(d))
      => \E i \in Ops(d, {"write"}) : i > LastRead(d)

\* C9: a handler waiting on a connection whose client has sent nothing and has
\* not closed is able to take a step (the one that would close the idle socket).
C9_IdleConnectionClosed ==
  \A c \in Conns :
    (sock[c] = "accepted" /\ pc[c] = "read" /\ peer[c] = "open"
       /\ content[c] = <<>> /\ wire[c] = <<>>)
      => ENABLED HandlerStep(c)

\* C10: every response on a connection whose first complete request names a
\* (method, path) with no route in the server has status 404 (never 200).
C10_UnroutedGets404 ==
  \A c \in Conns :
    (CompleteRequests(content[c]) >= 1 /\ RouteKey(content[c]) \notin routes)
      => \A i \in Ops(c, {"write"}) : StatusOf(io[c][i].data) = 404

\* C11: when a response is written to a complete request (every request of the
\* model is for the path "/"), each path add_route was called with before start
\* has a route stored in the server (the handler the response is built by).
C11_RegisteredRouteStored ==
  \A c \in Conns : \A i \in Ops(c, {"write"}) :
    CompleteRequests(ContentAt(c, i)) >= 1 =>
      \A p \in added : \E k \in routes : k[2] = p

\* C12: a response written while the accumulated bytes begin with a malformed
\* request has status 400 and is the handler's last socket call, the handler
\* having returned (socket closed): no 200, no further read.
C12_MalformedGets400 ==
  \A c \in Conns : \A i \in Ops(c, {"write"}) :
    MalformedAt(ContentAt(c, i), 1) =>
      /\ StatusOf(io[c][i].data) = 400
      /\ i = Len(io[c])
      /\ pc[c] = "done"

\* The body size cap of the claims.  The code configures none; any value below
\* the length PostHead declares stands for it.
BodyCap == 1

\* The Content-Length the first header block of s declares.
DeclaredLength(s) == get_content_length(SubSeq(s, 1, HeaderEnd(s, 1)))

\* C13: a response written while the accumulated bytes begin with a header
\* block that declares a Content-Length above the cap has status 413 and is the
\* handler's last socket call, the handler having returned (socket closed).
C13_OverCapGets413 ==
  \A c \in Conns : \A i \in Ops(c, {"write"}) :
    (HeaderEnd(ContentAt(c, i), 1) # 0
       /\ DeclaredLength(ContentAt(c, i)).some
       /\ DeclaredLength(ContentAt(c, i)).v > BodyCap)
      => /\ StatusOf(io[c][i].data) = 413
         /\ i = Len(io[c])
         /\ pc[c] = "done"

\* Index of the last byte of the last of the complete requests s begins with.
RECURSIVE ConsumedFrom(_, _)
ConsumedFrom(s, from) ==
  IF from > Len(s) \/ RequestEnd(s, from) = 0 THEN from - 1
  ELSE ConsumedFrom(s, RequestEnd(s, from) + 1)

\* C17: when the handler is back at the read with nothing left to read and the
\* accumulated bytes end exactly where a complete request ends, content_length
\* is 0 again (reset for the next request), not what an earlier request declared.
C17_ContentLengthReset ==
  \A c \in Conns :
    (Quiet(c) /\ content[c] # <<>> /\ ConsumedFrom(content[c], 1) = Len(content[c]))
      => content_length[c] = 0

\* C14: every response written has a header block with a Content-Length header
\* whose value equals the number of bytes that follow the CRLF CRLF, and all
\* the responses written (same input: the fixed body) are byte-identical.
C14_ResponseLengthMatchesBody ==
  \A c \in Conns : \A i \in Ops(c, {"write"}) :
    LET d == io[c][i].data
        h == HeaderEnd(d, 1)
    IN /\ h # 0
       /\ get_content_length(SubSeq(d, 1, h)) = Some(Len(d) - h)
       /\ SubSeq(d, h + 1, Len(d)) = response_body
       /\ \A e \in Conns : \A j \in Ops(e, {"write"}) : io[e][j].data = d

\* C14, witness: every connection has been written a response.
C14_Witness ==
  \A c \in Conns : Written(c) >= 1

\* C16: once accept has returned an error or a handler has ended (returned or
\* panicked), start_server is still in its accept loop, and a connection that
\* is waiting can be accepted and given a handler.
C16_AcceptErrorNotFatal ==
  (acceptErrs >= 1 \/ \E c \in Conns : pc[c] \in Ended) =>
    /\ listener = "accepting"
    /\ (\E d \in Conns : sock[d] = "backlog") => ENABLED AcceptOk

\* C16, witness: accept has returned an error (with a connection waiting), every
\* connection has since been accepted and spawned, and one handler has returned.
C16_Witness ==
  /\ acceptErrs >= 1
  /\ \A c \in Conns : sock[c] = "accepted" /\ pc[c] # "none"
  /\ \E c \in Conns : pc[c] = "done"

\* The last socket call of connection c is one of kinds.
LastOpIn(c, kinds) == io[c] # <<>> /\ io[c][Len(io[c])].op \in kinds

\* content holds every byte the reads have returned: nothing was ever removed.
NothingRemoved(c) == Len(content[c]) = BytesRead(c, Len(io[c]))

\* No write was attempted with 1024 or more bytes accumulated.
NoWriteAtLimit(c) ==
  \A i \in Ops(c, {"write", "writeErr"}) : BytesRead(c, i) < RespondLimit

\* C18 as stated: content is never cleared or truncated, no response is written
\* once 1024 or more bytes were received, and from then on the handler is
\* reading, or has returned on end of stream or on a read error.
C18_ReadsUntilEofOrError ==
  \A c \in Conns :
    /\ NothingRemoved(c)
    /\ NoWriteAtLimit(c)
    /\ Len(content[c]) >= RespondLimit =>
         \/ pc[c] = "read"
         \/ pc[c] = "done" /\ LastOpIn(c, {"eof", "readErr"})

\* C18, amended: content is never cleared or truncated, no response is written
\* once 1024 or more bytes were received, and from then on the handler is
\* reading, or has returned on end of stream or on a read error, or has panicked
\* in from_utf8 on a read that left content not UTF-8 with content_length 0.
C18_ReadsUntilEofErrorOrPanic ==
  \A c \in Conns :
    /\ NothingRemoved(c)
    /\ NoWriteAtLimit(c)
    /\ Len(content[c]) >= RespondLimit =>
         \/ pc[c] = "read"
         \/ pc[c] = "done" /\ LastOpIn(c, {"eof", "readErr"})
         \/ /\ pc[c] = "panicked"
            /\ LastOpIn(c, {"read"})
            /\ content_length[c] = 0
            /\ ~ValidUtf8(content[c])

\* C18, witness: a handler that received 1024 bytes or more, after having been
\* answered below that, has returned on end of stream.
C18_Witness ==
  \E c \in Conns :
    /\ Len(content[c]) >= RespondLimit
    /\ pc[c] = "done"
    /\ LastOpIn(c, {"eof"})
    /\ Written(c) >= 1

\* The reads of connection c that returned bytes and left fewer than 1024
\* accumulated.
ReadsBelowLimit(c) == {i \in Ops(c, {"read"}) : BytesRead(c, i) < RespondLimit}

\* Every call of write_all directly follows a read that left content below 1024
\* bytes, and every response written is the fixed 200 response.
WritesFollowReads(c) ==
  /\ \A i \in Ops(c, {"write", "writeErr"}) : i - 1 \in ReadsBelowLimit(c)
  /\ \A i \in Ops(c, {"write"}) :
       io[c][i].data = response /\ StatusOf(io[c][i].data) = 200
  /\ Written(c) <= NReads(c)

\* C19 as stated: whatever the bytes read, once the handler is past its write
\* it has called write_all with the fixed 200 response once for each read that
\* left fewer than 1024 bytes accumulated, and never otherwise.
C19_OneWritePerReadBelowLimit ==
  \A c \in Conns :
    /\ WritesFollowReads(c)
    /\ pc[c] # "write" =>
         Cardinality(Ops(c, {"write", "writeErr"})) = Cardinality(ReadsBelowLimit(c))

\* C19, amended: as stated, except for a read on which the handler panicked
\* (from_utf8 on content that is not UTF-8 while content_length is 0): it is the
\* handler's last call and is followed by no write.
C19_OneWritePerReadUnlessPanic ==
  \A c \in Conns :
    /\ WritesFollowReads(c)
    /\ pc[c] # "write" =>
         Cardinality(Ops(c, {"write", "writeErr"}))
           = Cardinality({i \in ReadsBelowLimit(c) :
                            ~(pc[c] = "panicked" /\ i = Len(io[c])
                                /\ content_length[c] = 0 /\ ~ValidUtf8(content[c]))})

\* C19, witness: a connection with an answered read below 1024 bytes, a read
\* that left 1024 bytes or more, and nothing pending.
C19_Witness ==
  \E c \in Conns :
    /\ pc[c] = "read"
    /\ Written(c) >= 1
    /\ \E i \in Ops(c, {"read"}) : BytesRead(c, i) >= RespondLimit

\* An address as the specification's Address Model takes it: exactly one ':'
\* between a non-empty host and a port of decimal digits whose value is in
\* 1..65535.
ColonAt(a) == {i \in 1..Len(a) : a[i] = ":"}
HostOf(a) == SubSeq(a, 1, Min(ColonAt(a)) - 1)
PortTextOf(a) == SubSeq(a, Min(ColonAt(a)) + 1, Len(a))
ValidAddress(a) ==
  /\ Cardinality(ColonAt(a)) = 1
  /\ HostOf(a) # <<>>
  /\ PortTextOf(a) # <<>>
  /\ \A i \in 1..Len(PortTextOf(a)) : IsDigit(PortTextOf(a)[i])
  /\ DecValue(PortTextOf(a)) \in 1..65535

\* A valid address whose port is written as its number is rendered: no
\* leading zero.
CanonicalAddress(a) ==
  ValidAddress(a) /\ PortTextOf(a) = FormatUsize(DecValue(PortTextOf(a)))

\* What the latest ServerInfo call returned agrees with the address: address()
\* is the String given to new, ip() the host, port() the port's number, and
\* ip() + ":" + port() is the address again.
InfoAgrees ==
  /\ info.call = "address" => info.ok /\ info.text = address
  /\ info.call = "ip" => info.ok /\ info.text = HostOf(address)
  /\ info.call = "port" =>
       /\ info.ok
       /\ info.num = DecValue(PortTextOf(address))
       /\ ip(address).text \o <<":">> \o FormatUsize(info.num) = address

\* C15 as stated: for every valid host:port address given to new, address()
\* returns it unchanged, ip() the host, port() the numeric port, and
\* ip() + ":" + port() is exactly address().
C15_RoundTripValid ==
  ValidAddress(address) => InfoAgrees

\* C15, amended: the same for every valid address whose port is written
\* without leading zeros (as rendering a port number writes it).
C15_RoundTripCanonical ==
  CanonicalAddress(address) => InfoAgrees

\* C15, witness: port() has returned for a canonical address with a port of
\* two digits or more.
C15_Witness ==
  /\ CanonicalAddress(address)
  /\ Len(PortTextOf(address)) >= 2
  /\ info.call = "port"
  /\ info.ok

====
